---- MODULE Spec2Model ----
(***************************************************************************)
(* KSAS: the dedup tracker (ksas/tracking.py), the worker pool             *)
(* (ksas/worker_pool.py), the orchestration loop and per-target pipeline   *)
(* (main.py) and the candidate store (ksas/candidate_db.py), as state      *)
(* machines.  Three specifications share the module:                       *)
(*   SpecTracker  one StarTracker instance over its files, with crashes    *)
(*   SpecLoop     parallel_analysis_loop driving a WorkerPool of worker    *)
(*                processes that run analyze_single_target                 *)
(*   SpecStore    one CandidateDatabase instance over candidates.json      *)
(***************************************************************************)
EXTENDS Integers, FiniteSets, Sequences, TLC

(***************************************************************************)
(* Bounds and program constants                                            *)
(***************************************************************************)
\* the largest target id of the tracker specification
NumIds == 11
\* tracking.py:72  "if len(self.analyzed) % 10 == 0: self.save()"
SAVE_EVERY == 10

\* the ids a run may mark: some already in the file, some new
TrackerIds == (SAVE_EVERY - 3)..NumIds

(***************************************************************************)
(* Files.  A file is absent, holds a complete JSON document, or holds      *)
(* bytes that json.load rejects (a truncated or garbled write).  "synced"  *)
(* says whether the bytes have reached the disk (os.fsync) or only the     *)
(* page cache.                                                             *)
(***************************************************************************)
NoFile == [kind |-> "none", ids |-> {}, synced |-> TRUE]
JsonFile(S, durable) == [kind |-> "json", ids |-> S, synced |-> durable]
PartialFile(durable) == [kind |-> "partial", ids |-> {}, synced |-> durable]

\* what a power loss leaves of a file: synced bytes survive, unsynced bytes
\* survive or are cut short
AfterPowerLoss(f) ==
    IF f.synced \/ f.kind = "none" THEN {f} ELSE {[f EXCEPT !.synced = TRUE], PartialFile(TRUE)}

VARIABLES
    \* ---- StarTracker (ksas/tracking.py)
    analyzed,      \* StarTracker.analyzed of the live instance (the loop's tracker)
    db_file,       \* analyzed_stars.json
    tmp_file,      \* analyzed_stars.json.tmp
    corrupt_file,  \* analyzed_stars.json.corrupt
    save_pc,       \* position inside StarTracker.save(): "idle" when not saving
    \* ---- CandidateDatabase (ksas/candidate_db.py)
    candidates,    \* CandidateDatabase.candidates: tic_id -> record
    cand_file,     \* candidates.json
    now,           \* datetime.now(), a logical clock
    load_failed,   \* load() found a file it could not parse (history)
    mig_pc,        \* position inside CandidateDatabase.check_and_migrate(): "idle" when not in it
    mig_i,         \* the records the migration loop has passed
    \* ---- WorkerPool (ksas/worker_pool.py) and its calling thread
    futures,         \* the futures executor.submit has returned, in order
    active_futures,  \* WorkerPool.active_futures (indices into futures)
    stats,           \* WorkerPool.stats
    result_queue,    \* WorkerPool.result_queue
    mgr_f,           \* the future whose callback the executor's thread is in (0: none)
    mgr_pc,          \* that callback's position
    pc,              \* position of the thread that calls the pool (the loop)
    handled,         \* futures whose result was taken off the queue, in order (history)
    \* ---- parallel_analysis_loop and the worker processes (main.py)
    use_gui,         \* TRUE: the loop runs in a daemon thread beside the GUI
    start_method,    \* how worker processes start: "fork" or "spawn"
    paused,          \* interface.is_paused()
    w_analyzed,      \* each worker process's own copy of tracker.analyzed
    w_candidates,    \* each worker process's own copy of candidate_db.candidates
    run_marked,      \* ids passed to mark_analyzed during the run (history)
    store_pc,        \* each flow's position inside a CandidateDatabase operation: "idle" when in none
    \* ---- stateless components (ksas/candidate_quality_analyzer.py, ksas/vetting.py)
    pure_in,         \* the arguments of the last call of such a component
    pure_out,        \* what that call returned
    lastOp           \* <<name, argument>> of the last tracker or store operation (history)

varsT == <<analyzed, db_file, tmp_file, corrupt_file, save_pc>>
varsS == <<candidates, cand_file, now, load_failed, mig_pc, mig_i>>
varsP == <<futures, active_futures, stats, result_queue, mgr_f, mgr_pc, pc, handled>>
varsL == <<use_gui, start_method, paused, w_analyzed, w_candidates, run_marked, store_pc>>
varsQ == <<pure_in, pure_out>>
vars == <<varsT, varsS, varsP, varsL, varsQ, lastOp>>

(***************************************************************************)
(* StarTracker.load                                                        *)
(***************************************************************************)
\* the set load() leaves in self.analyzed
LoadSet(f) == IF f.kind = "json" THEN f.ids ELSE {}

\* the .corrupt backup after load(): shutil.copy of an unparsable primary
\* (a failure of the copy is swallowed and leaves the backup as it was)
LoadBackup(f, old) == IF f.kind = "partial" THEN {f, old} ELSE {old}

(***************************************************************************)
(* StarTracker.mark_analyzed: add, then save() when the size is a multiple *)
(* of SAVE_EVERY.  save() runs as the Save* steps below so that a crash    *)
(* can fall between any two of them.                                       *)
(***************************************************************************)
\* a buffered tracker that empties its buffer when it flushes
MarkAnalyzedCleared(id) ==
    /\ save_pc = "idle"
    /\ lastOp' = <<"mark", id>>
    /\ IF Cardinality(analyzed \cup {id}) % SAVE_EVERY = 0
          THEN /\ save_pc' = "open"
               /\ analyzed' = {}
          ELSE /\ analyzed' = analyzed \cup {id}
               /\ UNCHANGED save_pc
    /\ UNCHANGED <<db_file, tmp_file, corrupt_file>>

MarkAnalyzed(id) ==
    /\ save_pc = "idle"
    /\ analyzed' = analyzed \cup {id}
    /\ lastOp' = <<"mark", id>>
    /\ save_pc' = IF Cardinality(analyzed') % SAVE_EVERY = 0 THEN "open" ELSE "idle"
    /\ UNCHANGED <<db_file, tmp_file, corrupt_file>>

(***************************************************************************)
(* StarTracker.save, step by step                                          *)
(***************************************************************************)
\* tracker.save() called by the loop when it stops (main.py, finally)
SaveCall ==
    /\ save_pc = "idle"
    /\ save_pc' = "open"
    /\ lastOp' = <<"save_call", 0>>
    /\ UNCHANGED <<analyzed, db_file, tmp_file, corrupt_file>>

\* open(temp_file, 'w'): the temporary file exists and is empty
SaveOpen ==
    /\ save_pc = "open"
    /\ tmp_file' = PartialFile(FALSE)
    /\ save_pc' = "dump"
    /\ lastOp' = <<"save_open", 0>>
    /\ UNCHANGED <<analyzed, db_file, corrupt_file>>

\* json.dump({'analyzed': list(self.analyzed)}, f); f.flush()
SaveDump ==
    /\ save_pc = "dump"
    /\ tmp_file' = JsonFile(analyzed, FALSE)
    /\ save_pc' = "fsync"
    /\ lastOp' = <<"save_dump", 0>>
    /\ UNCHANGED <<analyzed, db_file, corrupt_file>>

\* the same step with the durability barrier left out
SaveSyncSkipped ==
    /\ save_pc = "fsync"
    /\ save_pc' = "replace"
    /\ lastOp' = <<"save_sync", 0>>
    /\ UNCHANGED <<analyzed, db_file, tmp_file, corrupt_file>>

\* os.fsync(f.fileno()), then the with-block closes the file
SaveSync ==
    /\ save_pc = "fsync"
    /\ tmp_file' = [tmp_file EXCEPT !.synced = TRUE]
    /\ save_pc' = "replace"
    /\ lastOp' = <<"save_sync", 0>>
    /\ UNCHANGED <<analyzed, db_file, corrupt_file>>

\* os.replace(temp_file, self.db_file); save() is about to return
SaveReplace ==
    /\ save_pc = "replace"
    /\ db_file' = tmp_file
    /\ tmp_file' = NoFile
    /\ save_pc' = "return"
    /\ lastOp' = <<"save_replace", 0>>
    /\ UNCHANGED <<analyzed, corrupt_file>>

\* save() returns to its caller
SaveReturn ==
    /\ save_pc = "return"
    /\ save_pc' = "idle"
    /\ lastOp' = <<"save_return", 0>>
    /\ UNCHANGED <<analyzed, db_file, tmp_file, corrupt_file>>

\* a step of the try block raises (disk full, permission): the except
\* branch removes the temporary file when it exists and save() returns
SaveFail ==
    /\ save_pc \in {"open", "dump", "fsync", "replace"}
    /\ tmp_file' = IF save_pc = "open" THEN tmp_file ELSE NoFile
    /\ save_pc' = "idle"
    /\ lastOp' = <<"save_fail", 0>>
    /\ UNCHANGED <<analyzed, db_file, corrupt_file>>

(***************************************************************************)
(* The process dies inside save() (a kill or a power loss) and a new       *)
(* StarTracker is constructed: __init__ runs load() on the primary file.   *)
(***************************************************************************)
InSave == save_pc \in {"open", "dump", "fsync", "replace", "return"}

CrashInSave ==
    /\ InSave
    /\ \E d \in AfterPowerLoss(db_file) \cup {db_file},
          t \in AfterPowerLoss(tmp_file) \cup {tmp_file} :
          /\ db_file' = d
          /\ tmp_file' = t
          /\ analyzed' = LoadSet(d)
          /\ corrupt_file' \in LoadBackup(d, corrupt_file)
    /\ save_pc' = "idle"
    /\ lastOp' = <<"restart", 0>>

(***************************************************************************)
(* CandidateDatabase.  A Python dict is a function on its keys; dict.update *)
(* is Merge.  None is a value outside every numeric field's range.         *)
(***************************************************************************)
None == 0 - 1

Max(a, b) == IF a >= b THEN a ELSE b

\* "x or 0" for a number or None
OrZero(x) == IF x = None THEN 0 ELSE x

EmptyDict == [k \in {} |-> 0]

Put(d, k, v) == [x \in DOMAIN d \cup {k} |-> IF x = k THEN v ELSE d[x]]

Merge(r, u) == [k \in DOMAIN r \cup DOMAIN u |-> IF k \in DOMAIN u THEN u[k] ELSE r[k]]

\* candidates.json: absent, a JSON object, or bytes json.load rejects
NoStore == [kind |-> "none", data |-> EmptyDict]
JsonStore(c) == [kind |-> "json", data |-> c]
PartialStore == [kind |-> "partial", data |-> EmptyDict]

\* CandidateDatabase.load: the dict it leaves in self.candidates
LoadStore(f) == IF f.kind = "json" THEN f.data ELSE EmptyDict

\* CandidateDatabase.save: open(db_file, 'w') and json.dump in place; an
\* exception is logged and swallowed (open failed: the file is as it was;
\* the dump failed: the file is cut short)
SaveStore(c, f) == {JsonStore(c), f, PartialStore}

\* the record of a first insertion
NewRecord(tic, d, t) ==
    [tic_id |-> tic, period |-> d.period, depth |-> d.depth,
     snr |-> Max(OrZero(d.bls_power), OrZero(d.tls_sde)),
     bls_power |-> d.bls_power, tls_sde |-> d.tls_sde,
     vetting_passed |-> d.vetting_passed, detection_time |-> t,
     reviewed |-> FALSE, is_discovered |-> "None", notes |-> "",
     review_time |-> None, t0 |-> d.t0, duration |-> d.duration]

\* the fields a re-detection overwrites
DetectionFields(d, t) ==
    [period |-> d.period, depth |-> d.depth,
     snr |-> Max(OrZero(d.bls_power), OrZero(d.tls_sde)),
     bls_power |-> d.bls_power, tls_sde |-> d.tls_sde,
     vetting_passed |-> d.vetting_passed, detection_time |-> t,
     t0 |-> d.t0, duration |-> d.duration]

\* an upsert that rebuilds the record on every call
AddCandidateFresh(c, tic, d, t) == Put(c, tic, NewRecord(tic, d, t))

\* add_candidate's effect on the dict
AddCandidateTo(c, tic, d, t) ==
    IF tic \notin DOMAIN c
       THEN Put(c, tic, NewRecord(tic, d, t))
       ELSE Put(c, tic, Merge(c[tic], DetectionFields(d, t)))

\* mark_reviewed's effect on the dict
MarkReviewedIn(c, tic, disc, notes, t) ==
    IF tic \in DOMAIN c
       THEN Put(c, tic, Merge(c[tic], [reviewed |-> TRUE, is_discovered |-> disc,
                                       notes |-> notes, review_time |-> t]))
       ELSE c

\* bounds of the store specification
MaxTic == 2
MaxClock == 3
Tics == 1..MaxTic

\* what a detection can report
Detections ==
    {[period |-> p, depth |-> p, bls_power |-> 5, tls_sde |-> s,
      vetting_passed |-> v, t0 |-> p, duration |-> p] :
        p \in 1..2, s \in {None, 7}, v \in BOOLEAN}

\* the computed fields update_candidate is called with
ScoreUpdates == {[score |-> 50, quality |-> "FAIR", analysis_summary |-> "ok"]}

AddCandidate(tic, d) ==
    /\ now < MaxClock
    /\ candidates' = AddCandidateTo(candidates, tic, d, now)
    /\ cand_file' \in SaveStore(candidates', cand_file)
    /\ now' = now + 1
    /\ lastOp' = <<"add", [tic |-> tic, det |-> d, time |-> now]>>
    /\ UNCHANGED <<load_failed, mig_pc, mig_i>>

UpdateCandidate(tic, u) ==
    /\ now < MaxClock
    /\ tic \in DOMAIN candidates
    /\ candidates' = Put(candidates, tic, Merge(candidates[tic], u))
    /\ cand_file' \in SaveStore(candidates', cand_file)
    /\ now' = now + 1
    /\ lastOp' = <<"update", [tic |-> tic]>>
    /\ UNCHANGED <<load_failed, mig_pc, mig_i>>

MarkReviewed(tic, disc, notes) ==
    /\ now < MaxClock
    /\ tic \in DOMAIN candidates
    /\ candidates' = MarkReviewedIn(candidates, tic, disc, notes, now)
    /\ cand_file' \in SaveStore(candidates', cand_file)
    /\ now' = now + 1
    /\ lastOp' = <<"review", [tic |-> tic]>>
    /\ UNCHANGED <<load_failed, mig_pc, mig_i>>

\* update_candidate or mark_reviewed of an id the store does not hold: the
\* "if tic_id in self.candidates" guard skips the body and the save
StoreMiss(tic) ==
    /\ now < MaxClock
    /\ tic \notin DOMAIN candidates
    /\ now' = now + 1
    /\ lastOp' = <<"miss", [tic |-> tic]>>
    /\ UNCHANGED <<candidates, cand_file, load_failed, mig_pc, mig_i>>

\* records an earlier run left in the file: one never reviewed, one reviewed
OldRecord(tic) ==
    NewRecord(tic, [period |-> 1, depth |-> 1, bls_power |-> 5, tls_sde |-> None,
                    vetting_passed |-> TRUE, t0 |-> 1, duration |-> 1], 0)

OldReviewed(tic) ==
    Merge(OldRecord(tic), [reviewed |-> TRUE, is_discovered |-> "True",
                           notes |-> "known", review_time |-> 0])

(***************************************************************************)
(* A component that a specification leaves out stays as constructed.       *)
(***************************************************************************)
\* the state after StarTracker(): the file an earlier run left, or none
OldIds == 1..(SAVE_EVERY - 2)

TrackerFresh ==
    /\ analyzed = {}
    /\ db_file = NoFile
    /\ tmp_file = NoFile
    /\ corrupt_file = NoFile
    /\ save_pc = "idle"

StoreFresh ==
    /\ candidates = EmptyDict
    /\ cand_file = NoStore
    /\ now = 1
    /\ load_failed = FALSE
    /\ mig_pc = "idle"
    /\ mig_i = 0

PoolFresh ==
    /\ futures = <<>>
    /\ active_futures = {}
    /\ stats = [submitted |-> 0, completed |-> 0, in_progress |-> 0]
    /\ result_queue = <<>>
    /\ mgr_f = 0
    /\ mgr_pc = "idle"
    /\ pc = "idle"
    /\ handled = <<>>

\* no call of a stateless component has been made
PureFresh ==
    /\ pure_in = [fn |-> "none"]
    /\ pure_out = [fn |-> "none"]

LoopFresh ==
    /\ use_gui = FALSE
    /\ start_method = "fork"
    /\ paused = FALSE
    /\ w_analyzed = <<>>
    /\ w_candidates = <<>>
    /\ run_marked = {}
    /\ store_pc = <<>>

(***************************************************************************)
(* WorkerPool.  submit_work runs in the calling thread in three parts      *)
(* (executor.submit and the locked add, the locked counters, the           *)
(* registration of the callback); _on_complete runs in three parts (the    *)
(* locked discard, the locked counters, the put) in the executor's thread, *)
(* or in the calling thread when the future finished before                *)
(* add_done_callback.  The future being submitted is the last of futures.  *)
(***************************************************************************)
\* bounds: the worker count (num_workers) and the futures a run submits
NumWorkers == 2
MaxSubmit == 3

Workers == 1..NumWorkers

\* the flows that hold a CandidateDatabase on candidates.json: the GUI's
\* thread in the parent process (0) and the worker processes
Flows == 0..NumWorkers

SeqRange(q) == {q[i] : i \in 1..Len(q)}

\* what _on_complete puts on the queue for future f: the task's return
\* value, or {'error': str(e)} when future.result() raises
ResultItem(f) ==
    IF futures[f].st = "returned" THEN futures[f].res ELSE [error |-> "exc", f |-> f]

\* future = self.executor.submit(func, *args); with self.lock: add
SubmitAdd(t) ==
    /\ futures' = Append(futures, [target |-> t, st |-> "pending", cb |-> "unset",
                                   res |-> [f |-> Len(futures) + 1]])
    /\ active_futures' = active_futures \cup {Len(futures) + 1}
    /\ pc' = "sw_count"
    /\ UNCHANGED <<stats, result_queue, mgr_f, mgr_pc, handled>>

\* with self.stats_lock: submitted += 1; in_progress += 1
SubmitCount ==
    /\ pc = "sw_count"
    /\ stats' = [stats EXCEPT !.submitted = @ + 1, !.in_progress = @ + 1]
    /\ pc' = "sw_arm"
    /\ UNCHANGED <<futures, active_futures, result_queue, mgr_f, mgr_pc, handled>>

\* future.add_done_callback(self._on_complete): registered when the future
\* is pending; called at once, here, when it has finished (its first part,
\* the locked discard, is this step)
SubmitArm(ret) ==
    /\ pc = "sw_arm"
    /\ LET f == Len(futures) IN
          IF futures[f].st = "pending"
             THEN /\ futures' = [futures EXCEPT ![f].cb = "armed"]
                  /\ pc' = ret
                  /\ UNCHANGED active_futures
             ELSE /\ futures' = [futures EXCEPT ![f].cb = "inline"]
                  /\ active_futures' = active_futures \ {f}
                  /\ pc' = "cb_count"
    /\ UNCHANGED <<stats, result_queue, mgr_f, mgr_pc, handled>>

\* _on_complete in the calling thread: with self.stats_lock
InlineCount ==
    /\ pc = "cb_count"
    /\ stats' = [stats EXCEPT !.completed = @ + 1, !.in_progress = @ - 1]
    /\ pc' = "cb_put"
    /\ UNCHANGED <<futures, active_futures, result_queue, mgr_f, mgr_pc, handled>>

\* _on_complete in the calling thread: the put; submit_work then returns
InlinePut(ret) ==
    /\ pc = "cb_put"
    /\ LET f == Len(futures) IN
          /\ result_queue' = Append(result_queue, ResultItem(f))
          /\ futures' = [futures EXCEPT ![f].cb = "done", ![f].res = [f |-> f]]
    /\ pc' = ret
    /\ UNCHANGED <<active_futures, stats, mgr_f, mgr_pc, handled>>

\* the executor's thread sets future f's outcome and, when a callback is
\* registered, enters _on_complete: with self.lock: discard
FinishFuture(f, st, res) ==
    /\ f \in 1..Len(futures)
    /\ futures[f].st = "pending"
    /\ mgr_f = 0
    /\ IF futures[f].cb = "armed"
          THEN /\ futures' = [futures EXCEPT ![f].st = st, ![f].res = res, ![f].cb = "running"]
               /\ active_futures' = active_futures \ {f}
               /\ mgr_f' = f
               /\ mgr_pc' = "count"
          ELSE /\ futures' = [futures EXCEPT ![f].st = st, ![f].res = res]
               /\ UNCHANGED <<active_futures, mgr_f, mgr_pc>>
    /\ UNCHANGED <<stats, result_queue, pc, handled>>

\* a callback that counts the completion and leaves in_progress as it was
MgrCountKeepsInProgress ==
    /\ mgr_f # 0
    /\ mgr_pc = "count"
    /\ stats' = [stats EXCEPT !.completed = @ + 1]
    /\ mgr_pc' = "put"
    /\ UNCHANGED <<futures, active_futures, result_queue, mgr_f, pc, handled>>

\* _on_complete in the executor's thread: with self.stats_lock
MgrCount ==
    /\ mgr_f # 0
    /\ mgr_pc = "count"
    /\ stats' = [stats EXCEPT !.completed = @ + 1, !.in_progress = @ - 1]
    /\ mgr_pc' = "put"
    /\ UNCHANGED <<futures, active_futures, result_queue, mgr_f, pc, handled>>

\* _on_complete without its except branch: a future whose result() raises
\* puts nothing
MgrPutDropsError ==
    /\ mgr_f # 0
    /\ mgr_pc = "put"
    /\ result_queue' = IF futures[mgr_f].st = "returned"
                          THEN Append(result_queue, ResultItem(mgr_f))
                          ELSE result_queue
    /\ futures' = [futures EXCEPT ![mgr_f].cb = "done", ![mgr_f].res = [f |-> mgr_f]]
    /\ mgr_f' = 0
    /\ mgr_pc' = "idle"
    /\ UNCHANGED <<active_futures, stats, pc, handled>>

\* _on_complete in the executor's thread: the put
MgrPut ==
    /\ mgr_f # 0
    /\ mgr_pc = "put"
    /\ result_queue' = Append(result_queue, ResultItem(mgr_f))
    /\ futures' = [futures EXCEPT ![mgr_f].cb = "done", ![mgr_f].res = [f |-> mgr_f]]
    /\ mgr_f' = 0
    /\ mgr_pc' = "idle"
    /\ UNCHANGED <<active_futures, stats, pc, handled>>

\* get_active_count(): len(self.active_futures) under self.lock
GetActiveCount == Cardinality(active_futures)

(***************************************************************************)
(* The pool under any client: it submits whenever it likes, up to          *)
(* MaxSubmit tasks, and polls get_result between submissions.  A task      *)
(* returns its value or raises.                                            *)
(***************************************************************************)
\* the pool passes a task's arguments through unread; the client gives its
\* k-th task the argument k
PoolTargets == {Len(futures) + 1}

ClientSubmit(t) ==
    /\ pc = "idle"
    /\ Len(futures) < MaxSubmit
    /\ SubmitAdd(t)

\* get_result(timeout): one item off the queue (None when it is empty)
ClientGetResult ==
    /\ pc = "idle"
    /\ result_queue # <<>>
    /\ handled' = Append(handled, Head(result_queue).f)
    /\ result_queue' = Tail(result_queue)
    /\ UNCHANGED <<futures, active_futures, stats, mgr_f, mgr_pc, pc>>

\* a task that runs with the arguments of the first submission
TaskReturnsFirstArgs(f) ==
    FinishFuture(f, "returned", [target |-> futures[1].target, status |-> "ok", f |-> f])

\* the task of future f returns func(*args), which names its argument
TaskReturns(f) ==
    FinishFuture(f, "returned", [target |-> futures[f].target, status |-> "ok", f |-> f])

TaskRaises(f) == FinishFuture(f, "raised", [f |-> f])

InitPool ==
    /\ PoolFresh
    /\ lastOp = <<"init", 0>>
    /\ TrackerFresh /\ StoreFresh /\ LoopFresh /\ PureFresh

\* the pool's steps leave the tracker, the store and the loop's state alone
PoolFrame == UNCHANGED <<varsT, varsS, varsL, varsQ, lastOp>>

NextPool ==
    \/ (\E t \in PoolTargets : ClientSubmit(t)) /\ PoolFrame
    \/ SubmitCount /\ PoolFrame
    \/ SubmitArm("idle") /\ PoolFrame
    \/ InlineCount /\ PoolFrame
    \/ InlinePut("idle") /\ PoolFrame
    \/ (\E f \in 1..MaxSubmit : TaskReturns(f)) /\ PoolFrame
    \/ (\E f \in 1..MaxSubmit : TaskRaises(f)) /\ PoolFrame
    \/ MgrCount /\ PoolFrame
    \/ MgrPut /\ PoolFrame
    \/ ClientGetResult /\ PoolFrame

\* every task ends (returns or raises), and no thread stops in the middle
\* of submit_work or of _on_complete
PoolFairness ==
    /\ WF_vars((\E f \in 1..MaxSubmit : TaskReturns(f) \/ TaskRaises(f)) /\ PoolFrame)
    /\ WF_vars(SubmitCount /\ PoolFrame)
    /\ WF_vars(SubmitArm("idle") /\ PoolFrame)
    /\ WF_vars(InlineCount /\ PoolFrame)
    /\ WF_vars(InlinePut("idle") /\ PoolFrame)
    /\ WF_vars(MgrCount /\ PoolFrame)
    /\ WF_vars(MgrPut /\ PoolFrame)

SpecPool == InitPool /\ [][NextPool]_vars /\ PoolFairness

(***************************************************************************)
(* analyze_single_target, run by a worker process.  The pool is a          *)
(* ProcessPoolExecutor built without an initializer: a worker started by   *)
(* fork holds its own copies of the module globals tracker and             *)
(* candidate_db as they were in the parent; a worker started by spawn      *)
(* imports main afresh, where both are None.                               *)
(***************************************************************************)
\* the answers of the external collaborators to one run: the download, the
\* processing, the BLS and TLS detectors and the vetting.  An answer the
\* run never asks for is written "-".
Answers(dl, proc, bls, tls, vet) == [dl |-> dl, proc |-> proc, bls |-> bls, tls |-> tls, vet |-> vet]

\* every combination of answers a run can meet
Oracles ==
    {Answers("raise", "-", "-", "-", "-"), Answers("none", "-", "-", "-", "-"),
     Answers("lc", "none", "-", "-", "-"), Answers("lc", "clean", "none", "-", "-"),
     Answers("lc", "clean", "weak", "-", "-")}
    \cup {Answers("lc", "clean", "cand", tls, vet) :
             tls \in {"none", "sig", "insig"}, vet \in {"pass", "fail", "raise"}}

\* the answers the loop's specification draws from: no data, no signal, a
\* BLS candidate that passes vetting, a TLS candidate that fails it
LoopOracles ==
    {Answers("none", "-", "-", "-", "-"), Answers("lc", "clean", "weak", "-", "-"),
     Answers("lc", "clean", "cand", "none", "pass"),
     Answers("lc", "clean", "cand", "sig", "fail")}

\* a pipeline that also stores the candidates vetting rejects
PipelineRunStoresRejected(method, tracked, o) ==
    IF method = "spawn" THEN [status |-> "error", mark |-> FALSE, add |-> FALSE, tls |-> FALSE]
    ELSE IF tracked THEN [status |-> "already_analyzed", mark |-> FALSE, add |-> FALSE, tls |-> FALSE]
    ELSE IF o.dl = "raise" THEN [status |-> "error", mark |-> FALSE, add |-> FALSE, tls |-> FALSE]
    ELSE IF o.dl = "none" THEN [status |-> "no_data", mark |-> TRUE, add |-> FALSE, tls |-> FALSE]
    ELSE IF o.proc = "none" THEN [status |-> "processing_failed", mark |-> TRUE, add |-> FALSE, tls |-> FALSE]
    ELSE IF o.bls = "none" THEN [status |-> "bls_failed", mark |-> TRUE, add |-> FALSE, tls |-> FALSE]
    ELSE IF o.bls = "weak" THEN [status |-> "analyzed_no_signal", mark |-> TRUE, add |-> FALSE, tls |-> FALSE]
    ELSE IF o.vet = "raise" THEN [status |-> "error", mark |-> TRUE, add |-> FALSE, tls |-> o.tls # "none"]
    ELSE IF o.vet = "fail" THEN [status |-> "candidate_rejected", mark |-> TRUE, add |-> TRUE, tls |-> o.tls # "none"]
    ELSE [status |-> "candidate_confirmed", mark |-> TRUE, add |-> TRUE, tls |-> o.tls # "none"]

\* a pipeline that marks its target after vetting instead of before it
PipelineRunMarksLate(method, tracked, o) ==
    IF method = "spawn" THEN [status |-> "error", mark |-> FALSE, add |-> FALSE, tls |-> FALSE]
    ELSE IF tracked THEN [status |-> "already_analyzed", mark |-> FALSE, add |-> FALSE, tls |-> FALSE]
    ELSE IF o.dl = "raise" THEN [status |-> "error", mark |-> FALSE, add |-> FALSE, tls |-> FALSE]
    ELSE IF o.dl = "none" THEN [status |-> "no_data", mark |-> TRUE, add |-> FALSE, tls |-> FALSE]
    ELSE IF o.proc = "none" THEN [status |-> "processing_failed", mark |-> TRUE, add |-> FALSE, tls |-> FALSE]
    ELSE IF o.bls = "none" THEN [status |-> "bls_failed", mark |-> TRUE, add |-> FALSE, tls |-> FALSE]
    ELSE IF o.bls = "weak" THEN [status |-> "analyzed_no_signal", mark |-> TRUE, add |-> FALSE, tls |-> FALSE]
    ELSE IF o.vet = "raise" THEN [status |-> "error", mark |-> FALSE, add |-> FALSE, tls |-> o.tls # "none"]
    ELSE IF o.vet = "fail" THEN [status |-> "candidate_rejected", mark |-> TRUE, add |-> FALSE, tls |-> o.tls # "none"]
    ELSE [status |-> "candidate_confirmed", mark |-> TRUE, add |-> TRUE, tls |-> o.tls # "none"]

\* status: the result's status; mark: mark_analyzed was called;
\* add: add_candidate was called; tls: the TLS result supplied the parameters
PipelineRun(method, tracked, o) ==
    IF method = "spawn" THEN [status |-> "error", mark |-> FALSE, add |-> FALSE, tls |-> FALSE]
    ELSE IF tracked THEN [status |-> "already_analyzed", mark |-> FALSE, add |-> FALSE, tls |-> FALSE]
    ELSE IF o.dl = "raise" THEN [status |-> "error", mark |-> FALSE, add |-> FALSE, tls |-> FALSE]
    ELSE IF o.dl = "none" THEN [status |-> "no_data", mark |-> TRUE, add |-> FALSE, tls |-> FALSE]
    ELSE IF o.proc = "none" THEN [status |-> "processing_failed", mark |-> TRUE, add |-> FALSE, tls |-> FALSE]
    ELSE IF o.bls = "none" THEN [status |-> "bls_failed", mark |-> TRUE, add |-> FALSE, tls |-> FALSE]
    ELSE IF o.bls = "weak" THEN [status |-> "analyzed_no_signal", mark |-> TRUE, add |-> FALSE, tls |-> FALSE]
    ELSE IF o.vet = "raise" THEN [status |-> "error", mark |-> TRUE, add |-> FALSE, tls |-> o.tls # "none"]
    ELSE IF o.vet = "fail" THEN [status |-> "candidate_rejected", mark |-> TRUE, add |-> FALSE, tls |-> o.tls # "none"]
    ELSE [status |-> "candidate_confirmed", mark |-> TRUE, add |-> TRUE, tls |-> o.tls # "none"]

\* TLSAnalyzer(sde_threshold=7.0); is_significant is sde > sde_threshold
TLS_SDE_THRESHOLD == 7

IsSignificant(sde) == sde # None /\ sde > TLS_SDE_THRESHOLD

\* the arguments of the pipeline's add_candidate call: the detectors'
\* parameters are 1 (BLS) and 2 (TLS)
PipelineDetection(o) ==
    IF o.tls # "none"
       THEN [period |-> 2, depth |-> 2, bls_power |-> 5,
             tls_sde |-> IF o.tls = "sig" THEN TLS_SDE_THRESHOLD + 1 ELSE 3,
             vetting_passed |-> TRUE, t0 |-> 2, duration |-> 2]
       ELSE [period |-> 1, depth |-> 1, bls_power |-> 5, tls_sde |-> None,
             vetting_passed |-> TRUE, t0 |-> 1, duration |-> 1]

\* mark_analyzed on a tracker copy whose save() runs to its end: the set
\* after the call and the primary file after the call
MarkedSet(S, id) == S \cup {id}

MarkedFile(S, id, f) ==
    IF Cardinality(S \cup {id}) % SAVE_EVERY = 0 THEN JsonFile(S \cup {id}, TRUE) ELSE f

\* the targets the generator may yield, one of them in the file of an
\* earlier run
LoopOldIds == 1..(SAVE_EVERY - 1)
LoopTargets == (SAVE_EVERY - 1)..NumIds

\* analyze_single_target(t, stats) in worker process w, to its end: the
\* marks and records it leaves in the process's tracker and store and in
\* their files
AnalyzeSingleTarget(t, w, o) ==
    LET r == PipelineRun(start_method, t \in w_analyzed[w], o)
    IN  /\ w_analyzed' = IF r.mark THEN [w_analyzed EXCEPT ![w] = MarkedSet(@, t)]
                         ELSE w_analyzed
        /\ db_file' = IF r.mark THEN MarkedFile(w_analyzed[w], t, db_file) ELSE db_file
        /\ run_marked' = IF r.mark THEN run_marked \cup {t} ELSE run_marked
        /\ w_candidates' =
              IF r.add THEN [w_candidates EXCEPT
                               ![w] = AddCandidateTo(@, t, PipelineDetection(o), now)]
              ELSE w_candidates
        /\ cand_file' = IF r.add THEN JsonStore(w_candidates'[w]) ELSE cand_file

\* worker process w runs the pipeline for future f to its end and the
\* executor's thread receives the returned result
TaskRun(f, w, o) ==
    /\ pc # "killed"
    /\ f \in 1..Len(futures)
    /\ LET t == futures[f].target
           r == PipelineRun(start_method, t \in w_analyzed[w], o)
       IN  /\ FinishFuture(f, "returned", [target |-> t, status |-> r.status, f |-> f])
           /\ AnalyzeSingleTarget(t, w, o)
    /\ UNCHANGED <<analyzed, tmp_file, corrupt_file, save_pc, candidates, now, load_failed,
                   mig_pc, mig_i, use_gui, start_method, paused, store_pc, varsQ, lastOp>>

\* the function called directly, as a test calls it: the status of the
\* result it returns, the target and the answers met are kept in lastOp
DirectCall(t, w, o) ==
    /\ AnalyzeSingleTarget(t, w, o)
    /\ lastOp' = <<PipelineRun(start_method, t \in w_analyzed[w], o).status, t, o>>
    /\ UNCHANGED <<analyzed, tmp_file, corrupt_file, save_pc, candidates, now, load_failed,
                   mig_pc, mig_i, use_gui, start_method, paused, store_pc, varsP, varsQ>>

\* the future ends with an exception instead: the worker process died
\* (BrokenProcessPool) or the call could not be pickled
TaskBreaks(f) ==
    /\ pc # "killed"
    /\ FinishFuture(f, "raised", [f |-> f])
    /\ UNCHANGED <<varsT, varsS, varsL, varsQ, lastOp>>

(***************************************************************************)
(* parallel_analysis_loop                                                  *)
(***************************************************************************)
LoopRunning == pc \in {"top", "check", "draw", "sw_count", "sw_arm", "cb_count", "cb_put", "poll"}

\* while interface.is_paused(): time.sleep(0.5)
LoopPauseCheck ==
    /\ pc = "top"
    /\ ~paused
    /\ pc' = "check"
    /\ UNCHANGED <<futures, active_futures, stats, result_queue, mgr_f, mgr_pc, handled>>

\* if pool.get_active_count() < num_workers  (a run submits MaxSubmit
\* futures at most)
LoopCapacity ==
    /\ pc = "check"
    /\ pc' = IF GetActiveCount < NumWorkers /\ Len(futures) < MaxSubmit THEN "draw" ELSE "poll"
    /\ UNCHANGED <<futures, active_futures, stats, result_queue, mgr_f, mgr_pc, handled>>

\* target = next(target_generator); skipped with "continue" when the
\* loop's tracker holds it, submitted otherwise
LoopDraw(t) ==
    /\ pc = "draw"
    /\ IF t \in analyzed
          THEN /\ pc' = "top"
               /\ UNCHANGED <<futures, active_futures, stats, result_queue, mgr_f, mgr_pc, handled>>
          ELSE SubmitAdd(t)

\* handle_result(result): result['target'] and result['status'] are read
\* first; a result without them raises KeyError
HandleResultRaises(r) == "target" \notin DOMAIN r \/ "status" \notin DOMAIN r

\* result = pool.get_result(timeout=0.1); if result: handle_result(...)
\* An exception leaves the loop through "except Exception" to "finally".
LoopPoll ==
    /\ pc = "poll"
    /\ IF result_queue = <<>>
          THEN /\ pc' = "top"
               /\ UNCHANGED <<result_queue, handled>>
          ELSE /\ result_queue' = Tail(result_queue)
               /\ handled' = Append(handled, Head(result_queue).f)
               /\ pc' = IF HandleResultRaises(Head(result_queue)) THEN "finally" ELSE "top"
    /\ UNCHANGED <<futures, active_futures, stats, mgr_f, mgr_pc>>

\* KeyboardInterrupt reaches the loop when it runs in the main thread
LoopInterrupt ==
    /\ ~use_gui
    /\ LoopRunning
    /\ pc' = "finally"
    /\ UNCHANGED <<futures, active_futures, stats, result_queue, mgr_f, mgr_pc, handled>>

\* finally: pool.shutdown(wait=True) returns when every future has ended
\* and the executor's thread has run its callbacks
LoopShutdown ==
    /\ pc = "finally"
    /\ \A f \in 1..Len(futures) : futures[f].st # "pending"
    /\ mgr_f = 0
    /\ pc' = "flush"
    /\ UNCHANGED <<futures, active_futures, stats, result_queue, mgr_f, mgr_pc, handled>>

\* finally: tracker.save(), then the function returns
LoopFlush ==
    /\ pc = "flush"
    /\ db_file' \in {JsonFile(analyzed, TRUE), db_file}
    /\ pc' = "exited"
    /\ UNCHANGED <<futures, active_futures, stats, result_queue, mgr_f, mgr_pc, handled>>

\* the GUI is closed: main() returns and the interpreter ends with the
\* loop's daemon thread wherever it is
ProcessExit ==
    /\ use_gui
    /\ pc \notin {"exited", "killed"}
    /\ pc' = "killed"
    /\ UNCHANGED <<futures, active_futures, stats, result_queue, mgr_f, mgr_pc, handled>>

\* KSASGui.toggle_pause
TogglePause ==
    /\ use_gui
    /\ LoopRunning
    /\ paused' = ~paused

\* the state when the loop is entered: the components are constructed
\* (StarTracker() and CandidateDatabase() have loaded their files) and the
\* workers hold what the parent holds
InitLoop ==
    /\ db_file = JsonFile(LoopOldIds, TRUE)
    /\ analyzed = LoadSet(db_file)
    /\ tmp_file = NoFile
    /\ corrupt_file = NoFile
    /\ save_pc = "idle"
    /\ StoreFresh
    /\ PureFresh
    /\ futures = <<>>
    /\ active_futures = {}
    /\ stats = [submitted |-> 0, completed |-> 0, in_progress |-> 0]
    /\ result_queue = <<>>
    /\ mgr_f = 0
    /\ mgr_pc = "idle"
    /\ pc = "top"
    /\ handled = <<>>
    /\ use_gui \in BOOLEAN
    /\ start_method \in {"fork", "spawn"}
    /\ paused = FALSE
    /\ w_analyzed = [w \in Workers |-> IF start_method = "fork" THEN analyzed ELSE {}]
    /\ w_candidates = [w \in Workers |-> candidates]
    /\ run_marked = {}
    /\ store_pc = [k \in Flows |-> "idle"]
    /\ lastOp = <<"init", 0>>

\* what a step of the loop's thread or of a callback leaves alone
LoopFrame == UNCHANGED <<varsT, varsS, varsL, varsQ, lastOp>>

NextLoop ==
    \/ LoopPauseCheck /\ LoopFrame
    \/ LoopCapacity /\ LoopFrame
    \/ (\E t \in LoopTargets : LoopDraw(t)) /\ LoopFrame
    \/ SubmitCount /\ LoopFrame
    \/ SubmitArm("poll") /\ LoopFrame
    \/ InlineCount /\ LoopFrame
    \/ InlinePut("poll") /\ LoopFrame
    \/ LoopPoll /\ LoopFrame
    \/ LoopInterrupt /\ LoopFrame
    \/ LoopShutdown /\ LoopFrame
    \/ LoopFlush /\ UNCHANGED <<analyzed, tmp_file, corrupt_file, save_pc, varsS, varsL, varsQ, lastOp>>
    \/ ProcessExit /\ LoopFrame
    \/ \E f \in 1..MaxSubmit, w \in Workers, o \in LoopOracles : TaskRun(f, w, o)
    \/ \E f \in 1..MaxSubmit : TaskBreaks(f)
    \/ pc # "killed" /\ MgrCount /\ LoopFrame
    \/ pc # "killed" /\ MgrPut /\ LoopFrame

SpecLoop == InitLoop /\ [][NextLoop]_vars

(***************************************************************************)
(* The loop under a GUI whose user presses the pause button at any time.   *)
(***************************************************************************)
\* the steps of the loop's own thread
LoopThread ==
    \/ LoopPauseCheck
    \/ LoopCapacity
    \/ \E t \in LoopTargets : LoopDraw(t)
    \/ SubmitCount
    \/ SubmitArm("poll")
    \/ InlineCount
    \/ InlinePut("poll")
    \/ LoopPoll

\* headless, the flag is never set (is_paused returns False)
InitPause == InitLoop /\ start_method = "fork"

NextPause ==
    \/ NextLoop
    \/ TogglePause /\ UNCHANGED <<varsT, varsS, varsP, varsQ, lastOp, use_gui, start_method,
                                  w_analyzed, w_candidates, run_marked, store_pc>>

SpecPause == InitPause /\ [][NextPause]_vars

(***************************************************************************)
(* The loop left to run: nobody cancels it, no task raises, and every      *)
(* thread keeps going (the loop's thread, the executor's thread and the    *)
(* worker processes).  The generator may yield any sequence of targets.    *)
(***************************************************************************)
InitDrain == InitLoop /\ ~use_gui /\ start_method = "fork"

NextDrain ==
    \/ LoopThread /\ LoopFrame
    \/ \E f \in 1..MaxSubmit, w \in Workers, o \in LoopOracles : TaskRun(f, w, o)
    \/ MgrCount /\ LoopFrame
    \/ MgrPut /\ LoopFrame

DrainFairness ==
    /\ WF_vars(LoopThread /\ LoopFrame)
    /\ WF_vars(\E f \in 1..MaxSubmit, w \in Workers, o \in LoopOracles : TaskRun(f, w, o))
    /\ WF_vars(MgrCount /\ LoopFrame)
    /\ WF_vars(MgrPut /\ LoopFrame)

SpecDrain == InitDrain /\ [][NextDrain]_vars /\ DrainFairness

(***************************************************************************)
(* Several CandidateDatabase instances on the one candidates.json: the     *)
(* instance main() links to the GUI (candidates) and the copy each forked  *)
(* worker holds (w_candidates).  candidate_lock is a threading.Lock of the *)
(* process that takes it: a worker takes its own copy, which no other flow *)
(* contends for, and the GUI's review marks take no lock; so no operation  *)
(* here waits for another.  save() is open(db_file, 'w'), which empties    *)
(* the file, then json.dump.                                               *)
(***************************************************************************)
\* the dict of a flow's instance
InstanceOf(k) == IF k = 0 THEN candidates ELSE w_candidates[k]

\* a worker's add_candidate (main.py, under the worker's candidate_lock) up
\* to the open inside save()
WorkerAddOpen(w, t) ==
    /\ store_pc[w] = "idle"
    /\ w_candidates' = [w_candidates EXCEPT
                           ![w] = AddCandidateTo(@, t, PipelineDetection(
                                      Answers("lc", "clean", "cand", "none", "pass")), now)]
    /\ cand_file' = PartialStore
    /\ store_pc' = [store_pc EXCEPT ![w] = "dump"]
    /\ lastOp' = <<"add_candidate", t>>
    /\ UNCHANGED <<candidates, now, load_failed, mig_pc, mig_i, use_gui, start_method, paused,
                   w_analyzed, run_marked>>

\* CandidateManagerWindow.mark_discovered's save(): db.mark_reviewed up to
\* the open inside save()
GuiMarkOpen(t) ==
    /\ store_pc[0] = "idle"
    /\ t \in DOMAIN candidates
    /\ candidates' = MarkReviewedIn(candidates, t, "True", "known", now)
    /\ cand_file' = PartialStore
    /\ store_pc' = [store_pc EXCEPT ![0] = "dump"]
    /\ lastOp' = <<"mark_reviewed", t>>
    /\ UNCHANGED <<now, load_failed, mig_pc, mig_i, use_gui, start_method, paused,
                   w_analyzed, w_candidates, run_marked>>

\* json.dump and the close, which end the operation.  A flow that opened
\* the file before another flow's dump writes over that flow's bytes from
\* the start: what is left is its own text, or its text followed by the
\* rest of a longer one.
StoreDump(k) ==
    /\ store_pc[k] \in {"dump", "dump_over"}
    /\ cand_file' \in IF store_pc[k] = "dump_over"
                         THEN {JsonStore(InstanceOf(k)), PartialStore}
                         ELSE {JsonStore(InstanceOf(k))}
    /\ store_pc' = [j \in Flows |-> IF j = k THEN "idle"
                                     ELSE IF store_pc[j] = "idle" THEN "idle" ELSE "dump_over"]
    /\ lastOp' = <<"save", k>>
    /\ UNCHANGED <<candidates, now, load_failed, mig_pc, mig_i, use_gui, start_method, paused,
                   w_analyzed, w_candidates, run_marked>>

\* CandidateManagerWindow.refresh_list: self.db.load()
GuiRefresh ==
    /\ store_pc[0] = "idle"
    /\ candidates' = LoadStore(cand_file)
    /\ load_failed' = (load_failed \/ cand_file.kind = "partial")
    /\ lastOp' = <<"load", 0>>
    /\ UNCHANGED <<cand_file, now, mig_pc, mig_i, use_gui, start_method, paused,
                   w_analyzed, w_candidates, run_marked, store_pc>>

\* the file holds one record of an earlier run; the workers were forked
\* after CandidateDatabase() loaded it
InitShared ==
    /\ cand_file = JsonStore(Put(EmptyDict, 1, OldRecord(1)))
    /\ candidates = LoadStore(cand_file)
    /\ now = 1
    /\ load_failed = FALSE
    /\ mig_pc = "idle"
    /\ mig_i = 0
    /\ use_gui = TRUE
    /\ start_method = "fork"
    /\ paused = FALSE
    /\ w_analyzed = [w \in Workers |-> {}]
    /\ w_candidates = [w \in Workers |-> candidates]
    /\ run_marked = {}
    /\ store_pc = [k \in Flows |-> "idle"]
    /\ lastOp = <<"init", 0>>
    /\ TrackerFresh /\ PoolFresh /\ PureFresh

NextShared ==
    \/ (\E w \in Workers, t \in Tics : WorkerAddOpen(w, t)) /\ UNCHANGED <<varsT, varsP, varsQ>>
    \/ (\E t \in Tics : GuiMarkOpen(t)) /\ UNCHANGED <<varsT, varsP, varsQ>>
    \/ (\E k \in Flows : StoreDump(k)) /\ UNCHANGED <<varsT, varsP, varsQ>>
    \/ GuiRefresh /\ UNCHANGED <<varsT, varsP, varsQ>>

SpecShared == InitShared /\ [][NextShared]_vars

(***************************************************************************)
(* analyze_single_target called for any targets, each call meeting any     *)
(* answers of its collaborators, in processes started either way.          *)
(*  The store file of an earlier run holds   *)
(* nothing or a reviewed record of a target the tracker does not hold.     *)
(***************************************************************************)
InitPipeline ==
    /\ db_file \in {NoFile, JsonFile({1}, TRUE)}
    /\ analyzed = LoadSet(db_file)
    /\ tmp_file = NoFile
    /\ corrupt_file = NoFile
    /\ save_pc = "idle"
    /\ cand_file \in {NoStore, JsonStore(Put(EmptyDict, MaxTic, OldReviewed(MaxTic)))}
    /\ candidates = LoadStore(cand_file)
    /\ now = 1
    /\ load_failed = FALSE
    /\ mig_pc = "idle"
    /\ mig_i = 0
    /\ PoolFresh
    /\ PureFresh
    /\ use_gui = FALSE
    /\ start_method \in {"fork", "spawn"}
    /\ paused = FALSE
    /\ w_analyzed = [w \in Workers |-> IF start_method = "fork" THEN analyzed ELSE {}]
    /\ w_candidates = [w \in Workers |-> candidates]
    /\ run_marked = {}
    /\ store_pc = [k \in Flows |-> "idle"]
    /\ lastOp = <<"init", 0>>

\* the calls are made one after another in one process
NextPipeline == \E t \in Tics, o \in Oracles : DirectCall(t, 1, o)

SpecPipeline == InitPipeline /\ [][NextPipeline]_vars

(***************************************************************************)
(* CandidateQualityAnalyzer.  Numbers are kept exact on integer grids: snr *)
(* in whole units, period in tenths of a day, depth (relative flux) in     *)
(* units of 1/100000, depth_percent in thousandths of a percent, and a     *)
(* sub-score in units of 1/ScoreUnit.  The code computes in doubles, whose *)
(* rounding can put int() one below the exact value when the exact sum is  *)
(* a whole number; the scores here are the exact ones.                     *)
(***************************************************************************)
BLS_SNR_THRESHOLD == 10

\* the common denominator of the sub-scores' slopes on the integer grid
ScoreUnit == 6000

\* the flux value 1.0 on the depth grid
FluxOne == 100000

Min(a, b) == IF a <= b THEN a ELSE b

Abs(x) == IF x < 0 THEN 0 - x ELSE x

\* dict.get(key, default)
Get(r, k, default) == IF k \in DOMAIN r THEN r[k] ELSE default

\* _score_snr with its third band starting from the wrong base
ScoreSnrDipped(snr) ==
    LET T == BLS_SNR_THRESHOLD IN
    IF 2 * snr < T THEN 0
    ELSE IF snr < T THEN 600 + ((2 * snr - T) * 1200) \div T
    ELSE IF snr < 2 * T THEN 600 + ((snr - T) * 2400) \div T
    ELSE IF snr < 5 * T THEN 4200 + ((snr - 2 * T) * 1500) \div (3 * T)
    ELSE Min(ScoreUnit, 5700 + ((snr - 5 * T) * 300) \div 100)

\* _score_snr
ScoreSnr(snr) ==
    LET T == BLS_SNR_THRESHOLD IN
    IF 2 * snr < T THEN 0
    ELSE IF snr < T THEN 600 + ((2 * snr - T) * 1200) \div T
    ELSE IF snr < 2 * T THEN 1800 + ((snr - T) * 2400) \div T
    ELSE IF snr < 5 * T THEN 4200 + ((snr - 2 * T) * 1500) \div (3 * T)
    ELSE Min(ScoreUnit, 5700 + ((snr - 5 * T) * 300) \div 100)

\* _score_period (period in tenths of a day)
ScorePeriod(period) ==
    IF period <= 0 THEN 0
    ELSE IF period < 3 THEN 1800
    ELSE IF period <= 500 THEN (IF 5 <= period /\ period <= 200 THEN 6000 ELSE 4800)
    ELSE Max(1800, 6000 - 6 * (period - 500))

\* _score_depth (depth_percent in thousandths of a percent)
ScoreDepth(depth_percent) ==
    IF depth_percent <= 0 THEN 0
    ELSE IF depth_percent < 10 THEN 1200
    ELSE IF depth_percent <= 5000
            THEN (IF 50 <= depth_percent /\ depth_percent <= 1000 THEN 6000 ELSE 4800)
    ELSE Max(1200, 6000 - (3 * (depth_percent - 5000)) \div 5)

\* depth_percent = abs(1.0 - depth) * 100
DepthPercent(depth) == Abs(FluxOne - depth)

\* base_score = int(snr_score * 60 + depth_score * 25 + period_score * 15)
BaseScore(snr, period, depth) ==
    (60 * ScoreSnr(snr) + 25 * ScoreDepth(DepthPercent(depth)) + 15 * ScorePeriod(period))
        \div ScoreUnit

\* the score with the vetting penalty left out
OverallScoreUncapped(base_score, vetting_passed) == base_score

\* overall_score: the vetting penalty
OverallScore(base_score, vetting_passed) ==
    IF ~vetting_passed
       THEN IF base_score > 80 THEN Min(Min(base_score, 60), 50) ELSE Min(base_score, 60)
       ELSE base_score

\* _get_quality_label
QualityLabel(score) ==
    IF score >= 75 THEN "EXCELLENT"
    ELSE IF score >= 60 THEN "GOOD"
    ELSE IF score >= 40 THEN "FAIR"
    ELSE IF score >= 20 THEN "POOR"
    ELSE "VERY_POOR"

\* _get_recommendation, by the branch taken
Recommendation(score, snr, vetting_passed) ==
    IF ~vetting_passed THEN "FAILED VETTING"
    ELSE IF score >= 75 /\ snr > 20 THEN "HIGHLY PROMISING"
    ELSE IF score >= 65 /\ snr > 15 THEN "VERY GOOD"
    ELSE IF score >= 55 /\ snr > 12 THEN "GOOD"
    ELSE IF score >= 40 THEN "FAIR"
    ELSE "NOT RECOMMENDED"

\* analyze_candidate(tic_id, candidate_data): a missing key takes its
\* default; a None among snr, period and depth raises TypeError inside the
\* try block and the except branch returns the error dict
AnalyzeCandidate(tic_id, data) ==
    LET snr == Get(data, "snr", 0)
        period == Get(data, "period", 0)
        depth == Get(data, "depth", FluxOne)
        vetting_passed == Get(data, "vetting_passed", TRUE)
    IN  IF snr = None \/ period = None \/ depth = None
           THEN [fn |-> "analyze_candidate", tic_id |-> tic_id, error |-> "TypeError"]
           ELSE LET score == OverallScore(BaseScore(snr, period, depth), vetting_passed)
                IN  [fn |-> "analyze_candidate", tic_id |-> tic_id, score |-> score,
                     quality |-> QualityLabel(score), snr |-> snr, period |-> period,
                     depth_percent |-> DepthPercent(depth),
                     vetting_passed |-> vetting_passed,
                     recommendation |-> Recommendation(score, snr, vetting_passed)]

\* bound: the largest snr of the dense part of the input grid
MaxSnr == 60

\* the inputs: every whole snr up to MaxSnr and two beyond the point where
\* the snr score saturates; a period and a depth in each band of their
\* sub-scores
SnrValues == 0..MaxSnr \cup {150, 200}
PeriodValues == {0, 2, 4, 10, 300, 700, 1300}
DepthValues == {100000, 99995, 99980, 99500, 97000, 93000, 80000}

ScoreInputs ==
    {[fn |-> "analyze_candidate", snr |-> s, period |-> p, depth |-> d, vetting_passed |-> v] :
        s \in SnrValues, p \in PeriodValues, d \in DepthValues, v \in BOOLEAN}

\* a caller passes a record not yet analyzed to analyze_candidate
AnalyzeCall ==
    /\ pure_in.fn = "analyze_candidate"
    /\ IF pure_out.fn = "none" THEN TRUE ELSE pure_out.snr # pure_in.snr
    /\ pure_out' = AnalyzeCandidate(1, pure_in)
    /\ UNCHANGED pure_in

\* the record's strength statistic changes (a new detection of the target)
\* before it is analyzed again
NextSnr(s) ==
    /\ pure_in.fn = "analyze_candidate"
    /\ pure_out.fn = "analyze_candidate"
    /\ pure_out.snr = pure_in.snr
    /\ s # pure_in.snr
    /\ pure_in' = [pure_in EXCEPT !.snr = s]
    /\ UNCHANGED pure_out

InitScore ==
    /\ pure_in \in ScoreInputs
    /\ pure_out = [fn |-> "none"]
    /\ lastOp = <<"init", 0>>
    /\ TrackerFresh /\ StoreFresh /\ PoolFresh /\ LoopFresh

NextScore ==
    \/ AnalyzeCall /\ UNCHANGED <<varsT, varsS, varsP, varsL, lastOp>>
    \/ (\E s \in SnrValues : NextSnr(s)) /\ UNCHANGED <<varsT, varsS, varsP, varsL, lastOp>>

SpecScore == InitScore /\ [][NextScore]_vars

(***************************************************************************)
(* CandidateVetting.vet_candidate.  Each of the four tests returns a pair  *)
(* (passed, metric); a test that raises inside catches it and returns      *)
(* (True, 0.0).  An input is the four pairs the tests return for the light *)
(* curve and parameters given.                                             *)
(***************************************************************************)
\* what one test can return: passed with metric 0 (also its answer when it
\* raised inside), passed with a metric, failed with a metric
TestOutcomes == {[pass |-> TRUE, metric |-> 0], [pass |-> TRUE, metric |-> 1],
                 [pass |-> FALSE, metric |-> 2]}

VetInputs ==
    {[fn |-> "vet_candidate", odd_even |-> a, shape |-> b, secondary |-> c, ratio |-> d] :
        a \in TestOutcomes, b \in TestOutcomes, c \in TestOutcomes, d \in TestOutcomes}

\* reasons.append(...) when the test did not pass
AppendIfFailed(reasons, outcome, reason) ==
    IF ~outcome.pass THEN Append(reasons, reason) ELSE reasons

\* a vetting that stops at the first test that fails
VetCandidateFirstFailure(t) ==
    LET r1 == AppendIfFailed(<<>>, t.odd_even, "Odd/Even mismatch")
        r2 == IF r1 # <<>> THEN r1 ELSE AppendIfFailed(r1, t.shape, "V-shaped transit")
        r3 == IF r2 # <<>> THEN r2
              ELSE AppendIfFailed(r2, t.secondary, "Secondary transit detected")
        r4 == IF r3 # <<>> THEN r3
              ELSE AppendIfFailed(r3, t.ratio, "Unusual depth/duration ratio")
    IN  [fn |-> "vet_candidate", passed |-> Len(r4) = 0, reasons |-> r4,
         metrics |-> [odd_even_diff |-> t.odd_even.metric]]

\* vet_candidate
VetCandidate(t) ==
    LET r1 == AppendIfFailed(<<>>, t.odd_even, "Odd/Even mismatch")
        r2 == AppendIfFailed(r1, t.shape, "V-shaped transit")
        r3 == AppendIfFailed(r2, t.secondary, "Secondary transit detected")
        r4 == AppendIfFailed(r3, t.ratio, "Unusual depth/duration ratio")
    IN  [fn |-> "vet_candidate", passed |-> Len(r4) = 0, reasons |-> r4,
         metrics |-> [odd_even_diff |-> t.odd_even.metric,
                      shape_metric |-> t.shape.metric,
                      secondary_depth |-> t.secondary.metric,
                      depth_duration_ratio |-> t.ratio.metric]]

\* a caller (the pipeline, the manual analyzer) vets a candidate
VetCall ==
    /\ pure_in.fn = "vet_candidate"
    /\ pure_out.fn = "none"
    /\ pure_out' = VetCandidate(pure_in)
    /\ UNCHANGED pure_in

InitVet ==
    /\ pure_in \in VetInputs
    /\ pure_out = [fn |-> "none"]
    /\ lastOp = <<"init", 0>>
    /\ TrackerFresh /\ StoreFresh /\ PoolFresh /\ LoopFresh

NextVet == VetCall /\ UNCHANGED <<varsT, varsS, varsP, varsL, lastOp>>

SpecVet == InitVet /\ [][NextVet]_vars

(***************************************************************************)
(* CandidateDatabase.check_and_migrate and the save() that ends it.  The   *)
(* dict is iterated in its key order, taken here as ascending ids.         *)
(***************************************************************************)
Drop(r, k) == [x \in DOMAIN r \ {k} |-> r[x]]

\* 'score' not in data or 'quality' not in data
NeedsMigration(data) == "score" \notin DOMAIN data \/ "quality" \notin DOMAIN data

\* the i-th key of the dict
KeyAt(c, i) == CHOOSE k \in DOMAIN c : Cardinality({j \in DOMAIN c : j < k}) = i - 1

\* a loop body that analyzes every record again, migrated or not
MigrateRecordAll(tic, data) ==
    LET result == AnalyzeCandidate(tic, data)
    IN  IF "error" \in DOMAIN result
           THEN [data |-> data, ok |-> FALSE]
           ELSE [data |-> Merge(data, [score |-> result.score, quality |-> result.quality,
                                       analysis_summary |-> result.recommendation,
                                       snr |-> result.snr,
                                       depth_percent |-> result.depth_percent]),
                 ok |-> TRUE]

\* the loop body for one record: data is the record as the body leaves it,
\* ok is FALSE when the body raised (max() over a None, or result['score']
\* of an error result)
MigrateRecord(tic, data) ==
    IF ~NeedsMigration(data) THEN [data |-> data, ok |-> TRUE]
    ELSE IF "snr" \notin DOMAIN data
            /\ (Get(data, "bls_power", 0) = None \/ Get(data, "tls_sde", 0) = None)
       THEN [data |-> data, ok |-> FALSE]
    ELSE LET d1 == IF "snr" \notin DOMAIN data
                      THEN Merge(data, [snr |-> Max(Get(data, "bls_power", 0),
                                                    Get(data, "tls_sde", 0))])
                      ELSE data
             result == AnalyzeCandidate(tic, d1)
         IN  IF "error" \in DOMAIN result
                THEN [data |-> d1, ok |-> FALSE]
                ELSE [data |-> Merge(d1, [score |-> result.score, quality |-> result.quality,
                                          analysis_summary |-> result.recommendation,
                                          snr |-> result.snr,
                                          depth_percent |-> result.depth_percent]),
                      ok |-> TRUE]

\* the first loop: nothing to migrate returns True at once
MigCheck ==
    /\ mig_pc = "idle"
    /\ mig_pc' = IF \E tic \in DOMAIN candidates : NeedsMigration(candidates[tic])
                    THEN "ask" ELSE "idle"
    /\ lastOp' = <<"migrate_check", 0>>
    /\ UNCHANGED <<candidates, cand_file, now, load_failed, mig_i>>

\* messagebox.askyesno: No returns False
MigAsk(response) ==
    /\ mig_pc = "ask"
    /\ mig_pc' = IF response THEN "loop" ELSE "idle"
    /\ mig_i' = 0
    /\ lastOp' = <<"migrate_ask", 0>>
    /\ UNCHANGED <<candidates, cand_file, now, load_failed>>

\* one turn of the second loop; an exception goes to the except branch,
\* which returns False
MigRecord ==
    /\ mig_pc = "loop"
    /\ mig_i < Cardinality(DOMAIN candidates)
    /\ LET tic == KeyAt(candidates, mig_i + 1)
           m == MigrateRecord(tic, candidates[tic])
       IN  /\ candidates' = Put(candidates, tic, m.data)
           /\ mig_pc' = IF m.ok THEN "loop" ELSE "idle"
           /\ lastOp' = <<IF m.ok THEN "migrate_record" ELSE "migrate_failed", tic>>
    /\ mig_i' = mig_i + 1
    /\ UNCHANGED <<cand_file, now, load_failed>>

\* self.save(): open(self.db_file, 'w') empties the file; an open that
\* raises is logged and save() returns
MigSaveOpen ==
    /\ mig_pc = "loop"
    /\ mig_i = Cardinality(DOMAIN candidates)
    /\ \/ cand_file' = PartialStore /\ mig_pc' = "dump"
       \/ cand_file' = cand_file /\ mig_pc' = "saved"
    /\ lastOp' = <<"save_open", 0>>
    /\ UNCHANGED <<candidates, now, load_failed, mig_i>>

\* json.dump(self.candidates, f, indent=2); a dump that raises is logged
\* and leaves what it wrote
MigSaveDump ==
    /\ mig_pc = "dump"
    /\ cand_file' \in {JsonStore(candidates), PartialStore}
    /\ mig_pc' = "saved"
    /\ lastOp' = <<"save_dump", 0>>
    /\ UNCHANGED <<candidates, now, load_failed, mig_i>>

\* the success message, and return True
MigReturn ==
    /\ mig_pc = "saved"
    /\ mig_pc' = "idle"
    /\ lastOp' = <<"migrate_done", 0>>
    /\ UNCHANGED <<candidates, cand_file, now, load_failed, mig_i>>

\* the process is killed inside check_and_migrate and started again:
\* CandidateDatabase() loads the file
MigCrash ==
    /\ mig_pc # "idle"
    /\ candidates' = LoadStore(cand_file)
    /\ load_failed' = (cand_file.kind = "partial")
    /\ mig_pc' = "idle"
    /\ mig_i' = 0
    /\ lastOp' = <<"restart", 0>>
    /\ UNCHANGED <<cand_file, now>>

\* records of the store file of an earlier version: one written before the
\* scores existed, one already scored, two written before snr existed (the
\* second with a null tls_sde)
Scored(tic) ==
    Merge(OldReviewed(tic), [score |-> 50, quality |-> "FAIR", analysis_summary |-> "ok"])

VeryOld(tic) == Drop(Drop(OldRecord(tic), "snr"), "tls_sde")

VeryOldNull(tic) == Drop(OldRecord(tic), "snr")

OldStores ==
    {c \in UNION {[S -> {"old", "scored", "very_old", "very_old_null"}] : S \in SUBSET Tics} : TRUE}

StoreOf(kinds) ==
    [tic \in DOMAIN kinds |->
        CASE kinds[tic] = "old" -> OldRecord(tic)
          [] kinds[tic] = "scored" -> Scored(tic)
          [] kinds[tic] = "very_old" -> VeryOld(tic)
          [] OTHER -> VeryOldNull(tic)]

InitMigrate ==
    /\ \E kinds \in OldStores : cand_file = JsonStore(StoreOf(kinds))
    /\ candidates = LoadStore(cand_file)
    /\ load_failed = FALSE
    /\ now = 1
    /\ mig_pc = "idle"
    /\ mig_i = 0
    /\ lastOp = <<"init", 0>>
    /\ TrackerFresh /\ PoolFresh /\ LoopFresh /\ PureFresh

NextMigrate ==
    \/ MigCheck /\ UNCHANGED <<varsT, varsP, varsL, varsQ>>
    \/ (\E response \in BOOLEAN : MigAsk(response)) /\ UNCHANGED <<varsT, varsP, varsL, varsQ>>
    \/ MigRecord /\ UNCHANGED <<varsT, varsP, varsL, varsQ>>
    \/ MigSaveOpen /\ UNCHANGED <<varsT, varsP, varsL, varsQ>>
    \/ MigSaveDump /\ UNCHANGED <<varsT, varsP, varsL, varsQ>>
    \/ MigReturn /\ UNCHANGED <<varsT, varsP, varsL, varsQ>>
    \/ MigCrash /\ UNCHANGED <<varsT, varsP, varsL, varsQ>>

SpecMigrate == InitMigrate /\ [][NextMigrate]_vars

(***************************************************************************)
(* Specifications                                                          *)
(***************************************************************************)
InitTracker ==
    /\ db_file \in {NoFile, JsonFile(OldIds, TRUE), PartialFile(TRUE)}
    /\ analyzed = LoadSet(db_file)
    /\ tmp_file = NoFile
    /\ corrupt_file \in LoadBackup(db_file, NoFile)
    /\ save_pc = "idle"
    /\ lastOp = <<"init", 0>>
    /\ StoreFresh /\ PoolFresh /\ LoopFresh /\ PureFresh

NextTracker ==
    \/ (\E id \in TrackerIds : MarkAnalyzed(id)) /\ UNCHANGED <<varsS, varsP, varsL, varsQ>>
    \/ SaveCall /\ UNCHANGED <<varsS, varsP, varsL, varsQ>>
    \/ SaveOpen /\ UNCHANGED <<varsS, varsP, varsL, varsQ>>
    \/ SaveDump /\ UNCHANGED <<varsS, varsP, varsL, varsQ>>
    \/ SaveSync /\ UNCHANGED <<varsS, varsP, varsL, varsQ>>
    \/ SaveReplace /\ UNCHANGED <<varsS, varsP, varsL, varsQ>>
    \/ SaveReturn /\ UNCHANGED <<varsS, varsP, varsL, varsQ>>
    \/ SaveFail /\ UNCHANGED <<varsS, varsP, varsL, varsQ>>
    \/ CrashInSave /\ UNCHANGED <<varsS, varsP, varsL, varsQ>>

SpecTracker == InitTracker /\ [][NextTracker]_vars

\* the state after CandidateDatabase(): load() of whatever file is there
InitStore ==
    /\ cand_file \in {NoStore, PartialStore,
                      JsonStore(Put(EmptyDict, 1, OldRecord(1))),
                      JsonStore(Put(EmptyDict, 1, OldReviewed(1)))}
    /\ candidates = LoadStore(cand_file)
    /\ load_failed = (cand_file.kind = "partial")
    /\ mig_pc = "idle"
    /\ mig_i = 0
    /\ now = 1
    /\ lastOp = <<"init", 0>>
    /\ TrackerFresh /\ PoolFresh /\ LoopFresh /\ PureFresh

NextStore ==
    \/ (\E tic \in Tics, d \in Detections : AddCandidate(tic, d))
          /\ UNCHANGED <<varsT, varsP, varsL, varsQ>>
    \/ (\E tic \in Tics, u \in ScoreUpdates : UpdateCandidate(tic, u))
          /\ UNCHANGED <<varsT, varsP, varsL, varsQ>>
    \/ (\E tic \in Tics, disc \in {"True", "False"}, notes \in {"", "seen"} :
            MarkReviewed(tic, disc, notes))
          /\ UNCHANGED <<varsT, varsP, varsL, varsQ>>
    \/ (\E tic \in Tics : StoreMiss(tic)) /\ UNCHANGED <<varsT, varsP, varsL, varsQ>>

SpecStore == InitStore /\ [][NextStore]_vars

(***************************************************************************)
(* C1: on one StarTracker instance every step other than a restart keeps   *)
(* every id of the set in the set (is_analyzed stays true), mark_analyzed  *)
(* leaves its argument in the set, and get_count() does not decrease.      *)
(***************************************************************************)
C1_MarksMonotone ==
    [][lastOp'[1] # "restart" =>
          /\ analyzed \subseteq analyzed'
          /\ Cardinality(analyzed') >= Cardinality(analyzed)
          /\ (lastOp'[1] = "mark" => lastOp'[2] \in analyzed')]_vars

\* a mark of a new id has crossed a flush: the set grew past SAVE_EVERY
C1_Witness ==
    /\ lastOp[1] = "mark"
    /\ Cardinality(analyzed) > SAVE_EVERY
    /\ db_file.kind = "json" /\ Cardinality(db_file.ids) = SAVE_EVERY

(***************************************************************************)
(* C2: a crash at any step of save() followed by a reload yields the set   *)
(* the primary file held before the crash (the set persisted before the    *)
(* save, or after the rename the set being saved), never a cut-short file. *)
(***************************************************************************)
C2_CrashAtomic ==
    [][lastOp'[1] = "restart" =>
          /\ analyzed' \in {LoadSet(db_file), analyzed}
          /\ (db_file.kind # "partial" => db_file'.kind # "partial")
          /\ (save_pc \in {"open", "dump", "fsync", "replace"} => analyzed' = LoadSet(db_file))
          /\ (save_pc = "return" => analyzed' = analyzed)]_vars

\* a crash fell between the temporary file's write and the rename, and the
\* reload gave back the older set
C2_Witness ==
    /\ lastOp[1] = "restart"
    /\ tmp_file.kind = "json"
    /\ tmp_file.ids # analyzed
    /\ analyzed = db_file.ids
    /\ analyzed # {}

(***************************************************************************)
(* C3: with the loop submitting only after it saw get_active_count() <     *)
(* num_workers, the pool's in_progress counter never exceeds num_workers.  *)
(***************************************************************************)
C3_InProgressBounded == stats.in_progress <= NumWorkers

(***************************************************************************)
(* C4: every future submit_work created gets exactly one item on the       *)
(* result queue: never two, one once its callback has run, and one         *)
(* eventually.                                                             *)
(***************************************************************************)
\* the items future f has had put on the queue, taken off or not
ItemsOf(f) ==
    Cardinality({i \in 1..Len(result_queue) : result_queue[i].f = f})
    + Cardinality({i \in 1..Len(handled) : handled[i] = f})

C5_RaisedTaskHandled ==
    [][\A f \in 1..Len(futures) :
          (/\ futures[f].st = "raised"
           /\ pc = "poll"
           /\ result_queue # <<>>
           /\ Head(result_queue).f = f
           /\ handled' = Append(handled, f))
          => /\ "status" \in DOMAIN Head(result_queue)
             /\ Head(result_queue).status = "error"
             /\ pc' = "top"]_vars

(***************************************************************************)
(* C6: when the loop has exited, every result the in-flight tasks          *)
(* produced has been handed to handle_result: the queue is empty.          *)
(***************************************************************************)
C6_ExitDrained ==
    pc = "exited" =>
        /\ result_queue = <<>>
        /\ \A f \in 1..Len(futures) : futures[f].cb = "done" => f \in SeqRange(handled)

(***************************************************************************)
(* C7: after the loop has stopped through its finally block and the        *)
(* tracker's flush, the tracker file holds every id marked during the run. *)
(***************************************************************************)
C7_FlushHoldsRunMarks ==
    (pc = "exited" /\ LoadSet(db_file) = analyzed) => run_marked \subseteq LoadSet(db_file)

(***************************************************************************)
(* C8: a run whose download returns none ends with status no_data, leaves  *)
(* its target marked in the tracker the loop consults, and creates no      *)
(* entry in any copy of the candidate store.                               *)
(***************************************************************************)
C8_NoDataOutcome ==
    [][\A f \in 1..Len(futures) :
          (/\ futures[f].st = "pending"
           /\ futures'[f].st = "returned"
           /\ futures'[f].res.status = "no_data")
          => /\ futures[f].target \in analyzed'
             /\ candidates' = candidates
             /\ w_candidates' = w_candidates
             /\ cand_file' = cand_file]_vars

(***************************************************************************)
(* C9: add_candidate for an id the store already holds overwrites the      *)
(* detection fields with the call's arguments and leaves reviewed,         *)
(* is_discovered, notes and review_time as they were.                      *)
(***************************************************************************)
C9_UpsertKeepsReview ==
    [][(lastOp'[1] = "add" /\ lastOp'[2].tic \in DOMAIN candidates) =>
          LET t == lastOp'[2].tic
              d == lastOp'[2].det
              old == candidates[t]
              new == candidates'[t]
          IN  /\ new.reviewed = old.reviewed
              /\ new.is_discovered = old.is_discovered
              /\ new.notes = old.notes
              /\ new.review_time = old.review_time
              /\ new.period = d.period
              /\ new.depth = d.depth
              /\ new.snr = Max(OrZero(d.bls_power), OrZero(d.tls_sde))
              /\ new.bls_power = d.bls_power
              /\ new.tls_sde = d.tls_sde
              /\ new.vetting_passed = d.vetting_passed
              /\ new.detection_time = lastOp'[2].time]_vars

\* a reviewed record has just been detected again with other parameters
C9_Witness ==
    /\ lastOp[1] = "add"
    /\ LET r == candidates[lastOp[2].tic]
       IN  /\ r.reviewed
           /\ r.is_discovered = "False"
           /\ r.notes = "seen"
           /\ r.detection_time > r.review_time
           /\ r.period = 2

(***************************************************************************)
(* C10: when candidates.json exists and cannot be loaded, no operation     *)
(* of the store overwrites it: the unreadable file stays as it was found.  *)
(***************************************************************************)
C10_FailClosed == load_failed => cand_file = PartialStore

(***************************************************************************)
(* C11: a primary file that load() could not parse is never replaced       *)
(* unless the backup holds its bytes, and the tracker that found it starts *)
(* with an empty set.                                                      *)
(***************************************************************************)
C11_CorruptKeptAside ==
    [][db_file.kind = "partial" =>
          /\ (lastOp[1] \in {"init", "restart"} => analyzed = {})
          /\ (db_file'.kind # "partial" => corrupt_file'.kind = "partial")]_vars

(***************************************************************************)
(* C12: every id with a record in the candidate store is in the tracker    *)
(* set: in the loop's process, in every worker process, and in the two     *)
(* files as a restart would load them.                                     *)
(***************************************************************************)
C12_StoreWithinTracker ==
    /\ DOMAIN candidates \subseteq analyzed
    /\ \A w \in DOMAIN w_candidates : DOMAIN w_candidates[w] \subseteq w_analyzed[w]
    /\ DOMAIN LoadStore(cand_file) \subseteq LoadSet(db_file)

SnrRaised ==
    /\ pure_out.fn = "analyze_candidate"
    /\ pure_out'.fn = "analyze_candidate"
    /\ pure_out'.period = pure_out.period
    /\ pure_out'.depth_percent = pure_out.depth_percent
    /\ pure_out'.vetting_passed = pure_out.vetting_passed
    /\ pure_out.snr <= pure_out'.snr

C14_MonotoneInSnr == [][SnrRaised => pure_out.score <= pure_out'.score]_vars

C14_MonotoneBelowPenalty ==
    [][(SnrRaised /\ (pure_out'.vetting_passed
                        \/ BaseScore(pure_out'.snr, pure_in.period, pure_in.depth) <= 80))
          => pure_out.score <= pure_out'.score]_vars

\* a record that passed vetting was analyzed again with a larger snr and
\* its score rose
C14_Witness ==
    /\ pure_out.fn = "analyze_candidate"
    /\ pure_out.vetting_passed
    /\ pure_out.snr = pure_in.snr
    /\ pure_out.snr > BLS_SNR_THRESHOLD
    /\ \E s \in SnrValues :
          /\ s < pure_out.snr
          /\ AnalyzeCandidate(1, [pure_in EXCEPT !.snr = s]).score < pure_out.score
    /\ pure_out.score > 80

(***************************************************************************)
(* C17: vet_candidate's passed flag is true exactly when all four tests    *)
(* pass, its reasons hold one entry for each failing test in the order     *)
(* odd/even, shape, secondary, depth/duration, and its metrics hold the    *)
(* metric of every test, passed or failed.                                 *)
(***************************************************************************)
\* the reasons of the failing tests, in the fixed order
ExpectedReasons ==
    LET order == <<[t |-> pure_in.odd_even, r |-> "Odd/Even mismatch"],
                   [t |-> pure_in.shape, r |-> "V-shaped transit"],
                   [t |-> pure_in.secondary, r |-> "Secondary transit detected"],
                   [t |-> pure_in.ratio, r |-> "Unusual depth/duration ratio"]>>
        Failing(e) == ~e.t.pass
        failed == SelectSeq(order, Failing)
    IN  [i \in 1..Len(failed) |-> failed[i].r]

C17_AllTestsReported ==
    pure_out.fn = "vet_candidate" =>
        /\ pure_out.passed = (/\ pure_in.odd_even.pass /\ pure_in.shape.pass
                              /\ pure_in.secondary.pass /\ pure_in.ratio.pass)
        /\ pure_out.reasons = ExpectedReasons
        /\ DOMAIN pure_out.metrics =
              {"odd_even_diff", "shape_metric", "secondary_depth", "depth_duration_ratio"}
        /\ pure_out.metrics.odd_even_diff = pure_in.odd_even.metric
        /\ pure_out.metrics.shape_metric = pure_in.shape.metric
        /\ pure_out.metrics.secondary_depth = pure_in.secondary.metric
        /\ pure_out.metrics.depth_duration_ratio = pure_in.ratio.metric

\* a candidate whose first and last tests failed came back with both
\* reasons and with the metrics of the two tests that passed
C17_Witness ==
    /\ pure_out.fn = "vet_candidate"
    /\ ~pure_in.odd_even.pass /\ pure_in.shape.pass /\ pure_in.secondary.pass
    /\ ~pure_in.ratio.pass
    /\ Len(pure_out.reasons) = 2
    /\ pure_out.metrics.shape_metric = 1
    /\ ~pure_out.passed

\* C15: a migration pass never changes a record that already has both score
\* and quality, every record a pass writes is one a further pass leaves as
\* it is, and the pass that follows a completed one changes nothing.
C15_MigrationIdempotent ==
    [][lastOp'[1] # "restart" =>
          /\ \A tic \in DOMAIN candidates :
                ~NeedsMigration(candidates[tic]) => candidates'[tic] = candidates[tic]
          /\ \A tic \in DOMAIN candidates :
                candidates'[tic] # candidates[tic] =>
                    MigrateRecord(tic, candidates'[tic]).data = candidates'[tic]
          /\ (lastOp[1] = "migrate_done" =>
                /\ candidates' = candidates
                /\ cand_file' = cand_file
                /\ mig_pc' = "idle")]_vars

\* a second pass has looked at a store in which the first pass scored one
\* record and found another already scored
C15_Witness ==
    /\ lastOp[1] = "migrate_check"
    /\ mig_pc = "idle"
    /\ \E tic \in DOMAIN candidates :
          /\ ~NeedsMigration(candidates[tic])
          /\ candidates[tic].analysis_summary # "ok"
    /\ \E tic \in DOMAIN candidates : candidates[tic] = Scored(tic)

\* C16: a pass that is interrupted leaves a store file a restart loads
\* whole, with the records it held and none of them holding one of score
\* and quality without the other; before its final save the pass does not
\* touch the file.
C16_InterruptSafe ==
    [][/\ (lastOp'[1] = "restart" =>
              /\ cand_file'.kind = "json"
              /\ DOMAIN candidates' = DOMAIN candidates
              /\ \A tic \in DOMAIN candidates' :
                    ("score" \in DOMAIN candidates'[tic]) <=> ("quality" \in DOMAIN candidates'[tic]))
       /\ (mig_pc \in {"ask", "loop"} /\ lastOp'[1] \notin {"restart", "save_open"} =>
              cand_file' = cand_file)]_vars

C19_EveryTaskAcceptedAndRun ==
    /\ [](pc = "idle" /\ Len(futures) < MaxSubmit => ENABLED ClientSubmit(Len(futures) + 1))
    /\ [][\A f \in 1..Len(futures) :
             (futures[f].st = "pending" /\ futures'[f].st = "returned") =>
                 futures'[f].res.target = futures[f].target]_vars
    /\ \A f \in 1..MaxSubmit :
          (f <= Len(futures)) ~> (f <= Len(futures) /\ futures[f].st # "pending")

\* a task submitted while num_workers others were pending has returned the
\* result of its own argument, the others still pending
C19_Witness ==
    /\ Len(futures) > NumWorkers
    /\ \A f \in 1..NumWorkers : futures[f].st = "pending"
    /\ LET f == Len(futures)
       IN  /\ futures[f].st = "returned"
           /\ "target" \in DOMAIN futures[f].res
           /\ futures[f].res.target = futures[f].target
           /\ futures[f].target # futures[1].target

\* C20: no step turns a store file that loads into one that does not, and
\* a process killed inside save() and started again holds a store loaded
\* without failure, with the ids of the store that was being saved.
C20_SaveCrashSafe ==
    [][/\ (cand_file.kind = "json" => cand_file'.kind = "json")
       /\ (lastOp'[1] = "restart" /\ mig_pc \in {"dump", "saved"} =>
              ~load_failed' /\ DOMAIN candidates' = DOMAIN candidates)]_vars

\* C21: whenever get_stats() can take its lock, submitted equals completed
\* plus in_progress and in_progress is not negative.
C21_CountersBalance ==
    /\ stats.submitted = stats.completed + stats.in_progress
    /\ stats.in_progress >= 0

\* a callback has counted its completion while submit_work, in the other
\* thread, has counted a later submission
C21_Witness ==
    /\ mgr_pc = "put"
    /\ pc = "sw_arm"
    /\ stats.completed >= 1
    /\ stats.in_progress >= 1

\* C22: right after a run that ends candidate_confirmed, its target's record
\* has both score and quality.
C22_ConfirmedRecordScored ==
    [][lastOp'[1] = "candidate_confirmed" =>
          \A w \in Workers :
              w_candidates'[w] # w_candidates[w] =>
                  ~NeedsMigration(w_candidates'[w][lastOp'[2]])]_vars

\* C23: the record a confirmed run stores holds the precise detector's
\* period, epoch, duration and depth exactly when that detector's result
\* was present and significant, and the fast detector's otherwise.
C23_TlsOnlyWhenSignificant ==
    [][lastOp'[1] = "candidate_confirmed" =>
          \A w \in Workers :
              w_candidates'[w] # w_candidates[w] =>
                  LET r == w_candidates'[w][lastOp'[2]]
                      bls == PipelineDetection(Answers("lc", "clean", "cand", "none", "pass"))
                      tls == PipelineDetection(Answers("lc", "clean", "cand", "sig", "pass"))
                      used == IF IsSignificant(r.tls_sde) THEN tls ELSE bls
                  IN  /\ r.period = used.period
                      /\ r.t0 = used.t0
                      /\ r.duration = used.duration
                      /\ r.depth = used.depth]_vars

\* C24: a run in a process that holds a tracker, for a target not yet in
\* it, whose download and processing gave a light curve, leaves the target
\* in that tracker whatever its status.
C24_MarkedOnceDetectionReached ==
    [][(/\ start_method = "fork"
        /\ lastOp'[1] # "already_analyzed"
        /\ lastOp'[3].dl = "lc"
        /\ lastOp'[3].proc = "clean") =>
          \E w \in Workers :
              /\ lastOp'[2] \notin w_analyzed[w]
              /\ lastOp'[2] \in w_analyzed'[w]
              /\ lastOp'[2] \in run_marked']_vars

\* a run whose vetting raised has returned an error with its target marked
C24_Witness ==
    /\ lastOp[1] = "error"
    /\ lastOp[3].vet = "raise"
    /\ \E w \in Workers : lastOp[2] \in w_analyzed[w]

\* C26: within one run no target is submitted to the pool twice.
C26_NoRepeatDispatch ==
    \A f, g \in 1..Len(futures) : futures[f].target = futures[g].target => f = g

\* C25: while the pause flag is set and a result waits on the queue, the
\* loop's thread is not held: it can go on towards get_result and the
\* result handler.
C25_PauseStillDrains ==
    (paused /\ LoopRunning /\ result_queue # <<>>) => ENABLED LoopThread

\* C27: a step hands at most one result, and only the poll at the end of an
\* iteration does; every result put on the queue is handed to the result
\* handler later on.
C27_EveryResultHanded ==
    /\ [][handled' # handled =>
             /\ pc = "poll"
             /\ Len(handled') = Len(handled) + 1]_vars
    /\ \A f \in 1..MaxSubmit :
          (\E i \in 1..Len(result_queue) : result_queue[i].f = f)
              ~> (\E i \in 1..Len(handled) : handled[i] = f)

\* C28: at no time are two flows inside operations on the Candidate Store.
C28_OneFlowInStore ==
    Cardinality({k \in Flows : store_pc[k] # "idle"}) <= 1

\* C29: when no save is under way and the file loads, it holds every record
\* that an instance holds (each was in the file when the instance loaded it
\* or was saved by the instance since), and every record the GUI's instance
\* holds as reviewed is reviewed in the file, with its notes.
C29_NoLostUpdate ==
    ((\A k \in Flows : store_pc[k] = "idle") /\ cand_file.kind = "json") =>
        /\ \A k \in Flows : DOMAIN InstanceOf(k) \subseteq DOMAIN LoadStore(cand_file)
        /\ \A t \in DOMAIN candidates :
              candidates[t].reviewed =>
                  /\ t \in DOMAIN LoadStore(cand_file)
                  /\ LoadStore(cand_file)[t].reviewed
                  /\ LoadStore(cand_file)[t].is_discovered = candidates[t].is_discovered
                  /\ LoadStore(cand_file)[t].notes = candidates[t].notes

\* C30: no step takes an id out of the persisted tracker file or leaves a
\* partial primary file.
C30_TrackerFileGrows ==
    [][/\ LoadSet(db_file) \subseteq LoadSet(db_file')
       /\ db_file'.kind # "partial"]_vars

====
